---- MODULE Spec2Model ----
(***************************************************************************)
(* Model of the ClassifAI client (src/classifai/client.py): the content    *)
(* normalizer (_normalize_content, _process_content_items), the request    *)
(* made by each public operation and the response mapper                   *)
(* (_handle_response).                                                     *)
(*                                                                         *)
(* Strings that the code inspects (content strings, paths, URLs, base64    *)
(* payloads) are sequences of one-character strings, so that startswith,   *)
(* str(Path(..)) and base64 are computed and not assumed.  Byte strings    *)
(* are sequences of numbers in 0..255.  Error messages and JSON field      *)
(* values of responses are plain strings.                                  *)
(***************************************************************************)
EXTENDS Integers, Sequences, FiniteSets, TLC

VARIABLES
    pc,             \* position of the caller: idle, process, normalized, await, done
    op,             \* the public operation in progress
    content,        \* classify's content argument
    args,           \* the arguments of the call besides content
    items,          \* the list _process_content_items iterates over
    idx,            \* 1-based position of the loop of _process_content_items
    content_items,  \* the list built by the loop / returned by _normalize_content
    io,             \* I/O performed by the call so far, in order
    request,        \* the API request sent by the call (NoVal when none)
    response,       \* the API response received (NoVal when none)
    result,         \* how the call ended: return value or raised exception
    api_key,        \* self.api_key
    base_url,       \* self.base_url
    headers,        \* self.session.headers, the entries the client sets
    prev            \* history: how the normalization of the call before ended

vars == <<pc, op, content, args, items, idx, content_items, io, request, response, result,
          api_key, base_url, headers, prev>>

\* the client's configuration
cfg == <<api_key, base_url, headers>>

\* ------------------------------------------------------------------ bounds
MaxItems == 2       \* longest content list
MaxBytes == 3       \* longest file / download, in bytes

\* ------------------------------------------------------------------ values
NoVal == [kind |-> "none"]

\* An optional value: NoVal is Python's None.
Str(s)  == [kind |-> "str", s |-> s]
List(l) == [kind |-> "list", l |-> l]

\* Python truthiness of an optional string or list
Truthy(x) ==
    CASE x.kind = "str"  -> x.s # ""
      [] x.kind = "list" -> x.l # <<>>
      [] OTHER -> FALSE

\* the value of an optional that is not None
Val(x) == IF x.kind = "str" THEN x.s ELSE x.l

\* ------------------------------------------------------------ char strings
sHttp  == <<"h","t","t","p",":","/","/">>
sHttps == <<"h","t","t","p","s",":","/","/">>

sUrl      == sHttp \o <<"u">>               \* "http://u"
sUrlS     == sHttps \o <<"v">>              \* "https://v"
sJpg      == <<"a",".","j","p","g">>        \* "a.jpg"

StartsWith(s, prefix) ==
    /\ Len(s) >= Len(prefix)
    /\ SubSeq(s, 1, Len(prefix)) = prefix

\* only the http:// prefix is tested
IsUrl_http_only(s) == StartsWith(s, sHttp)

\* item_str.startswith(("http://", "https://"))
IsUrl(s) == StartsWith(s, sHttp) \/ StartsWith(s, sHttps)

\* ---------------------------------------------------------- str(Path(s))
\* pathlib joins the non-empty, non-"." components with single slashes,
\* keeps a leading "/" (or exactly two) and renders the empty path as ".".
RECURSIVE SplitSlash(_)
SplitSlash(s) ==
    IF \A i \in 1..Len(s) : s[i] # "/"
    THEN <<s>>
    ELSE LET i == CHOOSE j \in 1..Len(s) :
                      s[j] = "/" /\ \A k \in 1..(j - 1) : s[k] # "/"
         IN  <<SubSeq(s, 1, i - 1)>> \o SplitSlash(SubSeq(s, i + 1, Len(s)))

KeepPart(c) == c # <<>> /\ c # <<".">>

PathParts(s) == SelectSeq(SplitSlash(s), KeepPart)

RECURSIVE JoinSlash(_)
JoinSlash(parts) ==
    IF parts = <<>> THEN <<>>
    ELSE IF Len(parts) = 1 THEN parts[1]
    ELSE parts[1] \o <<"/">> \o JoinSlash(Tail(parts))

PathRoot(s) ==
    IF StartsWith(s, <<"/","/">>) /\ ~StartsWith(s, <<"/","/","/">>) THEN <<"/","/">>
    ELSE IF StartsWith(s, <<"/">>) THEN <<"/">>
    ELSE <<>>

PathStr(s) ==
    LET r == PathRoot(s)
        p == JoinSlash(PathParts(s))
    IN  IF r = <<>> /\ p = <<>> THEN <<".">> ELSE r \o p

\* ------------------------------------------------------------- str(dict)
\* A dict is its insertion-ordered sequence of <<key, value>> pairs, keys and
\* values being character strings without quotes or backslashes.
Quoted(s) == <<"'">> \o s \o <<"'">>

RECURSIVE DictBody(_)
DictBody(d) ==
    IF d = <<>> THEN <<>>
    ELSE LET kv == Quoted(d[1][1]) \o <<":", " ">> \o Quoted(d[1][2])
         IN  IF Len(d) = 1 THEN kv
             ELSE kv \o <<",", " ">> \o DictBody(Tail(d))

DictStr(d) == <<"{">> \o DictBody(d) \o <<"}">>

kType    == <<"t","y","p","e">>
kContent == <<"c","o","n","t","e","n","t">>
vText    == <<"t","e","x","t">>
vImage   == <<"i","m","a","g","e">>

\* {"type": t, "content": c} as written by the caller
Record(t, c) == << <<kType, t>>, <<kContent, c>> >>

\* ---------------------------------------------------------------- base64
B64Alphabet ==
    << "A","B","C","D","E","F","G","H","I","J","K","L","M","N","O","P",
       "Q","R","S","T","U","V","W","X","Y","Z","a","b","c","d","e","f",
       "g","h","i","j","k","l","m","n","o","p","q","r","s","t","u","v",
       "w","x","y","z","0","1","2","3","4","5","6","7","8","9","+","/" >>

B64Char(n) == B64Alphabet[n + 1]

B64Index(c) == CHOOSE n \in 0..63 : B64Alphabet[n + 1] = c

\* three bytes make four characters; a last group of one or two bytes is
\* padded with "="
RECURSIVE B64Groups(_)
B64Groups(b) ==
    IF Len(b) = 0 THEN <<>>
    ELSE IF Len(b) = 1 THEN
        << B64Char(b[1] \div 4), B64Char((b[1] % 4) * 16), "=", "=" >>
    ELSE IF Len(b) = 2 THEN
        << B64Char(b[1] \div 4),
           B64Char((b[1] % 4) * 16 + b[2] \div 16),
           B64Char((b[2] % 16) * 4), "=" >>
    ELSE
        << B64Char(b[1] \div 4),
           B64Char((b[1] % 4) * 16 + b[2] \div 16),
           B64Char((b[2] % 16) * 4 + b[3] \div 64),
           B64Char(b[3] % 64) >> \o B64Groups(SubSeq(b, 4, Len(b)))

\* base64.urlsafe_b64encode in place of b64encode: "-" and "_" for "+" and "/"
B64Encode_urlsafe(b) ==
    LET std == B64Groups(b)
    IN  [i \in 1..Len(std) |->
            IF std[i] = "+" THEN "-" ELSE IF std[i] = "/" THEN "_" ELSE std[i]]

\* base64.b64encode(data).decode("utf-8")
B64Encode(b) == B64Groups(b)

IsB64Char(c) == c = "=" \/ \E n \in 1..64 : B64Alphabet[n] = c

RECURSIVE B64DecodeGroups(_)
B64DecodeGroups(s) ==
    IF Len(s) < 4 THEN <<>>
    ELSE LET c1 == B64Index(s[1])
             c2 == B64Index(s[2])
             b1 == c1 * 4 + c2 \div 16
         IN  IF s[3] = "=" THEN <<b1>>
             ELSE LET c3 == B64Index(s[3])
                      b2 == (c2 % 16) * 16 + c3 \div 4
                  IN  IF s[4] = "=" THEN <<b1, b2>>
                      ELSE LET c4 == B64Index(s[4])
                               b3 == (c3 % 4) * 64 + c4
                           IN  <<b1, b2, b3>> \o B64DecodeGroups(SubSeq(s, 5, Len(s)))

\* base64.b64decode, which the receiver of an image payload applies:
\* characters outside the alphabet are discarded before decoding
B64Decode(s) == B64DecodeGroups(SelectSeq(s, IsB64Char))

\* Byte contents a file or a download can have: the first bytes of a JPEG
\* file, the empty file included.
JpegBytes == <<255, 216, 255, 224, 0, 16, 74, 70>>

Blobs == { SubSeq(JpegBytes, 1, n) : n \in 0..MaxBytes }

\* -------------------------------------------------------- classify inputs
\* One element of a content list, tagged with its Python type.
StrEl(s)  == [k |-> "str",  s |-> s]
PathEl(p) == [k |-> "path", p |-> p]      \* pathlib.Path(p)
DictEl(d) == [k |-> "dict", d |-> d]

Elems ==
    { StrEl(sJpg), StrEl(sUrl), StrEl(sUrlS), PathEl(sUrl),
      DictEl(Record(vText, sJpg)), DictEl(Record(vImage, sUrl)) }

ElemLists == UNION { [1..n -> Elems] : n \in 0..MaxItems }

\* content: a string, a list, or anything else (None, a number, a bare dict)
Contents ==
    { [k |-> "str", s |-> e.s] : e \in { x \in Elems : x.k = "str" } }
        \cup { [k |-> "list", l |-> l] : l \in ElemLists }
        \cup { [k |-> "other"] }

ArgSets ==
    { [labels |-> NoVal, description |-> NoVal, project_id |-> NoVal],
      [labels |-> List(<<"a", "b">>), description |-> NoVal, project_id |-> NoVal],
      [labels |-> List(<<>>), description |-> Str("d"), project_id |-> Str("p")],
      [labels |-> List(<<"a", "b">>), description |-> Str("d"), project_id |-> Str("p")],
      [labels |-> NoVal, description |-> Str(""), project_id |-> Str("")],
      [labels |-> NoVal, description |-> Str("d"), project_id |-> NoVal],
      [labels |-> NoVal, description |-> NoVal, project_id |-> Str("p")] }

\* ----------------------------------------------------------- environment
UrlFetchTimeout == 30

\* How requests.get(url, timeout=30) followed by raise_for_status() ends.
FetchOutcomes == {"ok", "ConnectionError", "Timeout", "HTTPError"}

\* What the path names at the time of the probe: nothing, a directory, a
\* readable regular file, a regular file that cannot be opened, or a name
\* whose stat fails with an error other than ENOENT/ENOTDIR/EBADF/ELOOP
\* (name too long, permission denied on a parent directory).
FsStates == {"absent", "dir", "file", "unreadable", "staterr"}

\* ------------------------------------------------------------- exceptions
Raise(exc) == [kind |-> "raise", exc |-> exc]

\* ClassifAIError.__init__(message, status_code, response)
ClassifAIError(exc, message, status_code, resp) ==
    [kind |-> "raise", exc |-> exc, message |-> message,
     status_code |-> status_code, response |-> resp]

Return(v) == [kind |-> "return", value |-> v]

\* ---------------------------------------------------------------- events
GetEv(i, url, outcome, data) ==
    [ev |-> "get", i |-> i, url |-> url, timeout |-> UrlFetchTimeout,
     outcome |-> outcome, data |-> data]

\* path.exists(): the state of the path, and whether the probe raised
StatEv(i, path, st, raised) ==
    [ev |-> "stat", i |-> i, path |-> path, state |-> st, raised |-> raised]

ReadEv(i, path, outcome, data) ==
    [ev |-> "read", i |-> i, path |-> path, outcome |-> outcome, data |-> data]

ApiEv(req) == [ev |-> "api", method |-> req.method, url |-> req.url]

\* --------------------------------------------------------------- __init__
sDefaultBase ==
    <<"h","t","t","p","s",":","/","/","a","p","i",".","c","l","a","s","s",
      "i","f","a","i",".","d","e","v">>             \* "https://api.classifai.dev"
sLocalBase == <<"h","t","t","p",":","/","/","h">>  \* "http://h"

\* the base_url argument: the default, and "http://h/" and "http://h//"
BaseUrlArgs ==
    { sDefaultBase, sLocalBase \o <<"/">>, sLocalBase \o <<"/","/">> }

\* the api_key argument: None, the empty string, a key
ApiKeyArgs == { NoVal, Str(""), Str("k") }

ConfigArgs == [api_key : ApiKeyArgs, base_url : BaseUrlArgs]

\* a single trailing slash is removed
RStripSlash_once(s) ==
    IF Len(s) > 0 /\ s[Len(s)] = "/" THEN SubSeq(s, 1, Len(s) - 1) ELSE s

\* base_url.rstrip("/"): every "/" at the end is removed
RStripSlash(s) ==
    LET slashes == { n \in 0..Len(s) : \A k \in (Len(s) - n + 1)..Len(s) : s[k] = "/" }
        n == CHOOSE m \in slashes : \A o \in slashes : o <= m
    IN  SubSeq(s, 1, Len(s) - n)

\* session.headers after __init__
SessionHeaders(key) ==
    (IF Truthy(key) THEN "X-API-Key" :> key.s ELSE <<>>)
        @@ ("Content-Type" :> "application/json")

\* ClassifAI(api_key, base_url), no call in progress
Constructed(c) ==
    /\ api_key = c.api_key
    /\ base_url = RStripSlash(c.base_url)
    /\ headers = SessionHeaders(c.api_key)
    /\ pc = "idle"
    /\ op = "none"
    /\ content = NoVal
    /\ args = NoVal
    /\ items = <<>>
    /\ idx = 0
    /\ content_items = <<>>
    /\ io = <<>>
    /\ request = NoVal
    /\ response = NoVal
    /\ result = NoVal
    /\ prev = NoVal

\* a client with a key and the default base_url
CoreConfigArgs == { c \in ConfigArgs : c.api_key = Str("k") /\ c.base_url = sDefaultBase }

Init == \E c \in CoreConfigArgs : Constructed(c)

\* every configuration
InitMapper == \E c \in ConfigArgs : Constructed(c)

\* ---------------------------------------------------- _normalize_content
\* the pass-through test is never satisfied
AllDicts_never(l) == FALSE

\* only records with a type and a content field count
AllDicts_wellformed(l) ==
    \A i \in 1..Len(l) :
        /\ l[i].k = "dict"
        /\ \E j \in 1..Len(l[i].d) : l[i].d[j][1] = kType
        /\ \E j \in 1..Len(l[i].d) : l[i].d[j][1] = kContent

AllDicts(l) == \A i \in 1..Len(l) : l[i].k = "dict"

\* content of a wrong type is refused with the built-in TypeError
ContentError_type == Raise("TypeError")

\* raise ValidationError("Content must be ..."): no status_code, no response
ContentError ==
    ClassifAIError("ValidationError",
        "Content must be a string, list of strings/paths/URLs, or list of dicts",
        NoVal, NoVal)

\* the string is wrapped in a Path before it is processed
SingleItemList_path(s) == <<PathEl(s)>>

\* [content], the list made of a single string
SingleItemList(s) == <<StrEl(s)>>

\* classify(content, labels, description, project_id) up to the dispatch of
\* _normalize_content
Classify(c, a) ==
    /\ pc = "idle"
    /\ op' = "classify"
    /\ content' = c
    /\ args' = a
    /\ UNCHANGED <<io, request, response>>
    /\ UNCHANGED <<cfg, prev>>
    /\ IF c.k = "str" THEN
            /\ items' = SingleItemList(c.s)
            /\ idx' = 1
            /\ pc' = "process"
            /\ UNCHANGED <<content_items, result>>
       ELSE IF c.k = "list" THEN
            IF AllDicts(c.l) THEN
                /\ content_items' = [i \in 1..Len(c.l) |-> c.l[i].d]
                /\ pc' = "normalized"
                /\ UNCHANGED <<items, idx, result>>
            ELSE
                /\ items' = c.l
                /\ idx' = 1
                /\ pc' = "process"
                /\ UNCHANGED <<content_items, result>>
       ELSE
            /\ result' = ContentError
            /\ pc' = "done"
            /\ UNCHANGED <<items, idx, content_items>>

\* ------------------------------------------------ _process_content_items
\* a dict is rendered by its last value and not by str(dict)
ItemStr_value(item) ==
    IF item.k = "str" THEN item.s
    ELSE IF item.k = "path" THEN PathStr(item.p)
    ELSE item.d[Len(item.d)][2]

\* str(item)
ItemStr(item) ==
    IF item.k = "str" THEN item.s
    ELSE IF item.k = "path" THEN PathStr(item.p)
    ELSE DictStr(item.d)

ImageItem(data) == Record(vImage, B64Encode(data))
TextItem(s)     == Record(vText, s)

\* the new item is put in front of the list
Emit_prepend(ci, events) ==
    /\ content_items' = <<ci>> \o content_items
    /\ io' = io \o events
    /\ idx' = idx + 1
    /\ pc' = IF idx = Len(items) THEN "normalized" ELSE "process"
    /\ UNCHANGED result

\* the loop goes on to the next item, or returns after the last one
Emit(ci, events) ==
    /\ content_items' = Append(content_items, ci)
    /\ io' = io \o events
    /\ idx' = idx + 1
    /\ pc' = IF idx = Len(items) THEN "normalized" ELSE "process"
    /\ UNCHANGED result

\* an I/O failure is turned into an error of the client's own
Abort_wrap(exc, events) ==
    /\ io' = io \o events
    /\ result' = ClassifAIError("ClassifAIError", exc, NoVal, NoVal)
    /\ pc' = "done"
    /\ UNCHANGED <<content_items, idx>>

\* the failing item is skipped and the loop goes on
Abort_skip(exc, events) ==
    /\ io' = io \o events
    /\ idx' = idx + 1
    /\ pc' = IF idx = Len(items) THEN "normalized" ELSE "process"
    /\ UNCHANGED <<content_items, result>>

\* an exception leaves the loop, _normalize_content and classify
Abort(exc, events) ==
    /\ io' = io \o events
    /\ result' = Raise(exc)
    /\ pc' = "done"
    /\ UNCHANGED <<content_items, idx>>

\* One iteration of the loop over items.
ProcessItem ==
    /\ pc = "process"
    /\ idx <= Len(items)
    /\ UNCHANGED <<op, content, args, items, request, response>>
    /\ UNCHANGED <<cfg, prev>>
    /\ LET item     == items[idx]
           item_str == ItemStr(item)
       IN  IF IsUrl(item_str) THEN
               \E outcome \in FetchOutcomes :
                   IF outcome = "ok"
                   THEN \E data \in Blobs :
                            Emit(ImageItem(data), <<GetEv(idx, item_str, "ok", data)>>)
                   ELSE Abort(outcome, <<GetEv(idx, item_str, outcome, <<>>)>>)
           ELSE IF item.k \in {"str", "path"} THEN
               LET path == PathStr(IF item.k = "str" THEN item.s ELSE item.p)
               IN  \E st \in FsStates :
                     CASE st = "file" ->
                            \E data \in Blobs :
                                Emit(ImageItem(data),
                                     <<StatEv(idx, path, st, FALSE), ReadEv(idx, path, "ok", data)>>)
                       [] st = "unreadable" ->
                            Abort("PermissionError",
                                  <<StatEv(idx, path, st, FALSE),
                                    ReadEv(idx, path, "PermissionError", <<>>)>>)
                       [] st = "staterr" ->
                            \* Path.exists() re-raises the OSError before
                            \* Python 3.12 and answers False from 3.12 on
                            \/ Abort("OSError", <<StatEv(idx, path, st, TRUE)>>)
                            \/ Emit(TextItem(item_str), <<StatEv(idx, path, st, FALSE)>>)
                       [] OTHER ->
                            Emit(TextItem(item_str), <<StatEv(idx, path, st, FALSE)>>)
           ELSE
               Emit(TextItem(item_str), <<>>)

\* ------------------------------------------------------------- requests
\* a field is added for every argument that is not None
OptField_not_none(name, x) == IF x.kind # "none" THEN name :> Val(x) ELSE <<>>

\* the fields classify adds to the request body for the arguments given
OptField(name, x) == IF Truthy(x) THEN name :> Val(x) ELSE <<>>

ClassifyBody(ci, a) ==
    ("content" :> ci) @@ OptField("labels", a.labels)
        @@ OptField("description", a.description)
        @@ OptField("project_id", a.project_id)

pClassify    == <<"/","c","l","a","s","s","i","f","y">>
pGroundTruth == <<"/","g","r","o","u","n","d","_","t","r","u","t","h","/">>
pProjects    == <<"/","p","r","o","j","e","c","t","s","/">>
pStats       == <<"/","s","t","a","t","s">>
pHealth      == <<"/","h","e","a","l","t","h">>

\* session.post(f"{self.base_url}{path}", json=body) / session.get(...)
Request(method, path, body) ==
    [method |-> method, url |-> base_url \o path, json |-> body]

\* sending a request leaves a header behind in the session
Send_sets_header(req) ==
    /\ request' = req
    /\ io' = Append(io, ApiEv(req))
    /\ pc' = "await"
    /\ headers' = ("X-Request-Method" :> req.method) @@ headers
    /\ UNCHANGED <<api_key, base_url, prev>>

\* response = self.session.post(url, json=body) / self.session.get(url)
Send(req) ==
    /\ request' = req
    /\ io' = Append(io, ApiEv(req))
    /\ pc' = "await"
    /\ UNCHANGED <<cfg, prev>>

\* the request is sent while the last element is still to be processed
Post_early ==
    /\ pc = "normalized" \/ (pc = "process" /\ idx >= 1 /\ idx = Len(items))
    /\ Send(Request("POST", pClassify, ClassifyBody(content_items, args)))
    /\ UNCHANGED <<op, content, args, items, idx, content_items, response, result>>

\* classify after normalization: build the body and POST it
Post ==
    /\ pc = "normalized"
    /\ Send(Request("POST", pClassify, ClassifyBody(content_items, args)))
    /\ UNCHANGED <<op, content, args, items, idx, content_items, response, result>>

DetectionIds == { <<"d","e","t","_","1">>, <<"d","e","t","_","2">> }
ProjectIds   == { <<"p","r","o","j","_","1">> }
GroundTruths == {Str("a"), List(<<"a">>), List(<<"a", "b">>)}

\* a list of one label is sent as a single label
FeedbackBody_collapse(ground_truth) ==
    IF ground_truth.kind = "str"
    THEN "ground_truth" :> ground_truth.s
    ELSE IF Len(ground_truth.l) = 1
    THEN "ground_truth" :> ground_truth.l[1]
    ELSE "ground_truth_labels" :> ground_truth.l

\* request_data of submit_feedback: isinstance(ground_truth, str) or not
FeedbackBody(ground_truth) ==
    IF ground_truth.kind = "str"
    THEN "ground_truth" :> ground_truth.s
    ELSE "ground_truth_labels" :> ground_truth.l

\* submit_feedback(detection_id, ground_truth)
SubmitFeedback(detection_id, ground_truth) ==
    /\ pc = "idle"
    /\ op' = "submit_feedback"
    /\ args' = [detection_id |-> detection_id, ground_truth |-> ground_truth]
    /\ Send(Request("POST", pGroundTruth \o detection_id, FeedbackBody(ground_truth)))
    /\ UNCHANGED <<content, items, idx, content_items, response, result>>

\* get_project_stats(project_id)
GetProjectStats(project_id) ==
    /\ pc = "idle"
    /\ op' = "get_project_stats"
    /\ args' = [project_id |-> project_id]
    /\ Send(Request("GET", pProjects \o project_id \o pStats, NoVal))
    /\ UNCHANGED <<content, items, idx, content_items, response, result>>

\* health_check()
HealthCheck ==
    /\ pc = "idle"
    /\ op' = "health_check"
    /\ Send(Request("GET", pHealth, NoVal))
    /\ UNCHANGED <<content, args, items, idx, content_items, response, result>>

\* ------------------------------------------------------------ responses
\* A JSON value as response.json() returns it, tagged with its Python type.
JDict(d) == [t |-> "dict", d |-> d]
JList(l) == [t |-> "list", l |-> l]
JNull    == [t |-> "NoneType"]

\* A response body: its text and what json() makes of it (NoVal: ValueError).
Body(text, json) == [text |-> text, json |-> json]

Bodies ==
    { Body("{error: X, detail: Y}", JDict([error |-> "X", detail |-> "Y"])),
      Body("{error: X}",            JDict([error |-> "X"])),
      Body("{error: X, detail: }",  JDict([error |-> "X", detail |-> ""])),
      Body("{detail: Y}",           JDict([detail |-> "Y"])),
      Body("{label: spam}",         JDict([label |-> "spam"])),
      Body("oops",                  NoVal),
      Body("",                      NoVal),
      Body("[]",                    JList(<<>>)),
      Body("null",                  JNull) }

Statuses == {200, 201, 400, 401, 404, 429, 500}

Responses == [status_code : Statuses, body : Bodies]

\* dict.get(key, default)
Get(d, key, default) == IF key \in DOMAIN d THEN d[key] ELSE default

\* an unparseable body becomes a fixed error text
ParsedData_fixed_text(resp) ==
    IF resp.body.json = NoVal
    THEN JDict([error |-> "Invalid JSON"])
    ELSE resp.body.json

\* try: data = response.json()  except ValueError: data = {"error": response.text}
ParsedData(resp) ==
    IF resp.body.json = NoVal
    THEN JDict([error |-> resp.body.text])
    ELSE resp.body.json

\* the detail is appended whenever the key is there
ErrorMsg_present(d) ==
    LET error_msg == Get(d, "error", "Unknown error")
    IN  IF "detail" \in DOMAIN d THEN error_msg \o ": " \o d.detail ELSE error_msg

\* error_msg = data.get("error", "Unknown error"); detail = data.get("detail");
\* if detail: error_msg = f"{error_msg}: {detail}"   (None and "" are falsy)
ErrorMsg(d) ==
    LET error_msg == Get(d, "error", "Unknown error")
        detail    == Get(d, "detail", "")
    IN  IF detail # "" THEN error_msg \o ": " \o detail ELSE error_msg

ErrorClass(status_code) ==
    CASE status_code = 401 -> "AuthenticationError"
      [] status_code = 429 -> "RateLimitError"
      [] status_code = 400 -> "ValidationError"
      [] status_code = 404 -> "NotFoundError"
      [] OTHER -> "ClassifAIError"

\* a body with an error field is raised whatever the status
HandleResult_error_first(resp) ==
    LET data == ParsedData(resp)
    IN  IF resp.status_code = 200 /\ ~(data.t = "dict" /\ "error" \in DOMAIN data.d)
        THEN Return(data)
        ELSE IF data.t # "dict" THEN Raise("AttributeError")
        ELSE ClassifAIError(ErrorClass(resp.status_code), ErrorMsg(data.d),
                            resp.status_code, data)

\* _handle_response(response)
HandleResult(resp) ==
    LET data == ParsedData(resp)
    IN  IF resp.status_code = 200 THEN Return(data)
        ELSE IF data.t # "dict" THEN Raise("AttributeError")    \* data.get
        ELSE ClassifAIError(ErrorClass(resp.status_code), ErrorMsg(data.d),
                            resp.status_code, data)

\* the API call returns a response and the operation maps it
\* a first 429 answer makes the client send the request again
HandleResponse_retry(resp) ==
    /\ pc = "await"
    /\ response' = resp
    /\ IF resp.status_code = 429 /\ response = NoVal
       THEN /\ io' = Append(io, ApiEv(request))
            /\ UNCHANGED <<pc, result>>
       ELSE /\ result' = HandleResult(resp)
            /\ pc' = "done"
            /\ UNCHANGED io
    /\ UNCHANGED <<op, content, args, items, idx, content_items, request>>
    /\ UNCHANGED <<cfg, prev>>

\* return self._handle_response(response): the outcome of the call
HandleResponse(resp) ==
    /\ pc = "await"
    /\ response' = resp
    /\ result' = HandleResult(resp)
    /\ pc' = "done"
    /\ UNCHANGED <<op, content, args, items, idx, content_items, io, request>>
    /\ UNCHANGED <<cfg, prev>>

\* session.post / session.get raises: no response is received
TransportErrors == {"ConnectionError", "Timeout"}

\* a failure of the transport is raised as an error of the client's own
TransportFails_wrapped(exc) ==
    /\ pc = "await"
    /\ result' = ClassifAIError("ClassifAIError", exc, NoVal, NoVal)
    /\ pc' = "done"
    /\ UNCHANGED <<op, content, args, items, idx, content_items, io, request, response>>
    /\ UNCHANGED <<cfg, prev>>

\* session.post / session.get raises: the exception reaches the caller
TransportFails(exc) ==
    /\ pc = "await"
    /\ result' = Raise(exc)
    /\ pc' = "done"
    /\ UNCHANGED <<op, content, args, items, idx, content_items, io, request, response>>
    /\ UNCHANGED <<cfg, prev>>

\* the caller takes the outcome; the client is ready for the next call
Finish ==
    /\ pc = "done"
    /\ pc' = "idle"
    /\ op' = "none"
    /\ content' = NoVal
    /\ args' = NoVal
    /\ items' = <<>>
    /\ idx' = 0
    /\ content_items' = <<>>
    /\ io' = <<>>
    /\ request' = NoVal
    /\ response' = NoVal
    /\ result' = NoVal
    /\ UNCHANGED <<cfg, prev>>

\* the events of the normalization: the fetches, probes and reads
NormalizationIo == SelectSeq(io, LAMBDA e : e.ev # "api")

\* how _normalize_content ended: the list returned or the exception raised
NormalizationOutcome ==
    [content       |-> content,
     content_items |-> content_items,
     io            |-> NormalizationIo,
     failure       |-> IF request = NoVal THEN result ELSE NoVal]

\* as Finish, with the outcome of the normalization of a classify call kept
\* for the comparison with the next call
FinishRecord ==
    /\ pc = "done"
    /\ pc' = "idle"
    /\ op' = "none"
    /\ content' = NoVal
    /\ args' = NoVal
    /\ items' = <<>>
    /\ idx' = 0
    /\ content_items' = <<>>
    /\ io' = <<>>
    /\ request' = NoVal
    /\ response' = NoVal
    /\ result' = NoVal
    /\ prev' = IF op = "classify" THEN NormalizationOutcome ELSE NoVal
    /\ UNCHANGED cfg

\* a call of classify with content drawn from C and arguments from A
CallClassify(C, A) == pc = "idle" /\ \E c \in C, a \in A : Classify(c, a)

CallSubmitFeedback ==
    pc = "idle" /\ \E d \in DetectionIds, g \in GroundTruths : SubmitFeedback(d, g)

CallGetProjectStats == pc = "idle" /\ \E p \in ProjectIds : GetProjectStats(p)

\* the service answers with a response drawn from R
ReceiveResponse(R) == pc = "await" /\ \E r \in R : HandleResponse(r)

TransportFailure == pc = "await" /\ \E e \in TransportErrors : TransportFails(e)

Step(C, A, R) ==
    \/ CallClassify(C, A)
    \/ ProcessItem
    \/ Post
    \/ CallSubmitFeedback
    \/ CallGetProjectStats
    \/ HealthCheck
    \/ ReceiveResponse(R)
    \/ TransportFailure
    \/ Finish

\* The content normalizer in full: every content up to MaxItems elements,
\* one set of arguments, and a success, a mapped error and an unmapped body
\* as the service's answers.
CoreArgSets ==
    { a \in ArgSets : a.labels = List(<<"a", "b">>) /\ a.description = NoVal }

CoreResponses ==
    { r \in Responses :
        \/ r.status_code = 200 /\ r.body.text = "{label: spam}"
        \/ r.status_code = 429 /\ r.body.text = "{error: X, detail: Y}"
        \/ r.status_code = 500 /\ r.body.text = "[]" }

Next == Step(Contents, CoreArgSets, CoreResponses)

Spec == Init /\ [][Next]_vars

\* The facade and the response mapper in full: every set of arguments and
\* every response, with content of at most one element.
ShortContents == { c \in Contents : c.k = "list" => Len(c.l) <= 1 }

NextMapper == Step(ShortContents, ArgSets, Responses)

SpecMapper == InitMapper /\ [][NextMapper]_vars

\* Two classify calls one after the other, the outcome of the first kept in
\* prev: a string, a list of at most one element or anything else.
NextPair ==
    \/ CallClassify(ShortContents, CoreArgSets)
    \/ ProcessItem
    \/ Post
    \/ ReceiveResponse(CoreResponses)
    \/ TransportFailure
    \/ FinishRecord

SpecPair == Init /\ [][NextPair]_vars

\* Records of any shape: without a content field, without a type field and
\* with another field, with an unknown type, and the empty record.
OddRecords ==
    { << <<kType, vText>> >>,
      << <<<<"u","r","l">>, sUrl>> >>,
      << <<kType, <<"v","i","d","e","o">>>>, <<kContent, sJpg>> >>,
      << >> }

RecordElems ==
    { DictEl(d) : d \in OddRecords } \cup { DictEl(Record(vText, sJpg)), StrEl(sJpg) }

\* lists of records of any shape, some of them with a string among them
RecordContents ==
    { [k |-> "list", l |-> l] : l \in UNION { [1..n -> RecordElems] : n \in 0..MaxItems } }

NextRecords == Step(RecordContents, CoreArgSets, CoreResponses)

SpecRecords == Init /\ [][NextRecords]_vars

\* ================================================================ claims
\* the I/O events of the call that belong to element i, in order
EvsOf(i) == SelectSeq(io, LAMBDA e : e.ev # "api" /\ e.i = i)

FileIoEvents == { k \in 1..Len(io) : io[k].ev \in {"stat", "read"} }
FetchEvents  == { k \in 1..Len(io) : io[k].ev = "get" }
ApiEvents    == { k \in 1..Len(io) : io[k].ev = "api" }

HttpPrefixed(s) ==
    \/ Len(s) >= 7 /\ SubSeq(s, 1, 7) = <<"h","t","t","p",":","/","/">>
    \/ Len(s) >= 8 /\ SubSeq(s, 1, 8) = <<"h","t","t","p","s",":","/","/">>

\* the string an element stands for
ElemText(e) ==
    IF e.k = "str" THEN e.s
    ELSE IF e.k = "path" THEN PathStr(e.p)
    ELSE DictStr(e.d)

IsImageOf(ci, data) == ci = << <<kType, vImage>>, <<kContent, B64Groups(data)>> >>
IsTextOf(ci, s)     == ci = << <<kType, vText>>, <<kContent, s>> >>

ListOfRecords(l) == \A i \in 1..Len(l) : l[i].k = "dict"
MixedList(l)     == ~ListOfRecords(l) /\ \E i \in 1..Len(l) : l[i].k = "dict"

\* normalization of the call has returned a list
Normalized == pc \in {"normalized", "await"} \/ (pc = "done" /\ request # NoVal)

\* item ci is what the precedence URL > existing file > text makes of
\* element e, given the I/O done for position i
ItemMatches(e, i, ci) ==
    LET evs == EvsOf(i)
    IN  IF e.k = "str" /\ HttpPrefixed(e.s) THEN
            /\ Len(evs) = 1
            /\ evs[1].ev = "get" /\ evs[1].outcome = "ok"
            /\ IsImageOf(ci, evs[1].data)
        ELSE IF e.k \in {"str", "path"} THEN
            /\ Len(evs) >= 1
            /\ evs[1].ev = "stat"
            /\ IF evs[1].state = "file"
               THEN /\ Len(evs) = 2
                    /\ evs[2].ev = "read" /\ evs[2].outcome = "ok"
                    /\ IsImageOf(ci, evs[2].data)
               ELSE /\ Len(evs) = 1
                    /\ IsTextOf(ci, ElemText(e))
        ELSE
            /\ evs = <<>>
            /\ IsTextOf(ci, ElemText(e))

\* C1: for a content list that is not a list of records, the items built so
\* far are, position by position, what the precedence (http(s):// string ->
\* image of the fetched bytes, without any file access; existing regular
\* file -> image of the file's bytes; anything else -> text of the literal
\* string) makes of the elements, and a normalization that returns has
\* built exactly one item per element.
C1_PrecedenceInOrder ==
    (op = "classify" /\ content.k = "list" /\ ~ListOfRecords(content.l)) =>
        /\ Len(content_items) <= Len(content.l)
        /\ Normalized => Len(content_items) = Len(content.l)
        /\ \A i \in 1..Len(content_items) :
               ItemMatches(content.l[i], i, content_items[i])

\* a URL image, then a file image with other bytes, both in place
C1_Witness ==
    /\ pc = "normalized"
    /\ content.k = "list" /\ Len(content.l) = 2
    /\ content.l[1] = StrEl(sUrl) /\ content.l[2] = StrEl(sJpg)
    /\ \E k \in FetchEvents : io[k].i = 1
    /\ \E k \in FileIoEvents : io[k].ev = "read" /\ io[k].i = 2
    /\ content_items[1] # content_items[2]

\* the string elements that were found not to name an existing file
PlainStringProbes ==
    { k \in 1..Len(io) :
        /\ io[k].ev = "stat"
        /\ io[k].state \in {"absent", "dir", "staterr"}
        /\ items[io[k].i].k = "str" }

\* C2: every string that is neither http(s)://-prefixed nor the name of an
\* existing file yields one Text item with the string as payload, and
\* neither a fetch nor a file read is done for it.
C2_PlainStringIsText ==
    (op = "classify") =>
        \A k \in PlainStringProbes :
            LET i == io[k].i
            IN  /\ ~HttpPrefixed(items[i].s)
                /\ Len(content_items) >= i
                /\ IsTextOf(content_items[i], items[i].s)
                /\ \A m \in 1..Len(io) :
                       io[m].ev \in {"get", "read"} => io[m].i # i

\* C3: a list in which every element is a record is returned as it is: the
\* same records in the same order, none of them reclassified, and no fetch
\* and no file access is made.
C3_RecordListIdentity ==
    (op = "classify" /\ content.k = "list" /\ ListOfRecords(content.l)) =>
        /\ pc # "process"
        /\ Len(content_items) = Len(content.l)
        /\ \A i \in 1..Len(content.l) : content_items[i] = content.l[i].d
        /\ FetchEvents = {} /\ FileIoEvents = {}
        /\ request # NoVal => request.json["content"] = content_items

\* two different records, one holding a file name and one a URL, posted
C3_Witness ==
    /\ pc = "await" /\ op = "classify"
    /\ content.k = "list" /\ Len(content.l) = 2
    /\ content.l[1] = DictEl(Record(vText, sJpg))
    /\ content.l[2] = DictEl(Record(vImage, sUrl))
    /\ request.json["content"] = <<Record(vText, sJpg), Record(vImage, sUrl)>>

C5_FileRoundTrip ==
    (op = "classify") =>
        \A k \in 1..Len(io) :
            (io[k].ev = "read" /\ io[k].outcome = "ok") =>
                LET i    == io[k].i
                    data == io[k].data
                IN  /\ items[i].k \in {"str", "path"}
                    /\ k > 1 /\ io[k - 1].ev = "stat" /\ io[k - 1].i = i
                    /\ io[k - 1].state = "file" /\ io[k - 1].path = io[k].path
                    /\ Len(content_items) >= i
                    /\ Len(content_items[i]) = 2
                    /\ content_items[i][1] = <<kType, vImage>>
                    /\ content_items[i][2][1] = kContent
                    /\ LET payload == content_items[i][2][2]
                       IN  /\ Len(payload) = 4 * ((Len(data) + 2) \div 3)
                           /\ \A n \in 1..Len(payload) : IsB64Char(payload[n])
                           /\ B64Decode(payload) = data

\* a file of two bytes (one padding character) read and encoded
C5_Witness ==
    /\ pc = "normalized"
    /\ items = <<StrEl(sJpg)>>
    /\ Len(io) = 2 /\ io[2].ev = "read" /\ io[2].data = <<255, 216>>
    /\ content_items[1][2][2] = <<"/", "9", "g", "=">>

\* element i has been through the loop
Processed(i) ==
    i < idx \/ (i = idx /\ pc = "done" /\ request = NoVal /\ result.kind = "raise")

\* C6: for a string starting with http:// or https:// exactly one fetch is
\* made, of exactly that URL with a timeout of 30 seconds, and none before
\* its turn; if it succeeds the element's item is an Image whose payload is
\* the base64 text of the fetched bytes; if it fails the call ends with the
\* fetch's error, nothing is emitted for the element and nothing is sent.
C6_UrlFetch ==
    (op = "classify") =>
        \A i \in 1..Len(items) :
            (items[i].k = "str" /\ HttpPrefixed(items[i].s)) =>
                LET evs == EvsOf(i)
                IN  IF Processed(i) THEN
                        /\ Len(evs) = 1
                        /\ evs[1].ev = "get"
                        /\ evs[1].url = items[i].s
                        /\ evs[1].timeout = 30
                        /\ evs[1].outcome = "ok" =>
                               /\ Len(content_items) >= i
                               /\ IsImageOf(content_items[i], evs[1].data)
                               /\ B64Decode(content_items[i][2][2]) = evs[1].data
                        /\ evs[1].outcome # "ok" =>
                               /\ pc = "done"
                               /\ result = [kind |-> "raise", exc |-> evs[1].outcome]
                               /\ Len(content_items) = i - 1
                               /\ request = NoVal /\ ApiEvents = {}
                    ELSE evs = <<>>

\* an http:// URL fetched, then an https:// URL whose fetch fails
C6_Witness ==
    /\ pc = "done"
    /\ items = <<StrEl(sUrl), StrEl(sUrlS)>>
    /\ Len(io) = 2
    /\ io[1].ev = "get" /\ io[1].outcome = "ok" /\ Len(io[1].data) = 3
    /\ io[2].ev = "get" /\ io[2].outcome = "HTTPError"
    /\ Len(content_items) = 1

FailedIo(e) ==
    \/ e.ev = "get"  /\ e.outcome # "ok"
    \/ e.ev = "read" /\ e.outcome # "ok"

\* C7: a failed fetch or file read is the last I/O of the call: no fetch or
\* read for a later element and no POST follows it, and the call has ended
\* by raising that error, nothing sent and no result returned.
C7_FailFast ==
    \A k \in 1..Len(io) :
        FailedIo(io[k]) =>
            /\ k = Len(io)
            /\ pc = "done"
            /\ result = [kind |-> "raise", exc |-> io[k].outcome]
            /\ request = NoVal /\ response = NoVal
            /\ Len(content_items) = io[k].i - 1
            /\ \A m \in 1..Len(io) : io[m].ev = "api" \/ io[m].i <= io[k].i

\* the first of two elements fails while the second is a URL still to fetch
C7_Witness ==
    /\ pc = "done" /\ op = "classify"
    /\ Len(items) = 2
    /\ items[2] = StrEl(sUrlS)
    /\ Len(io) >= 1 /\ FailedIo(io[Len(io)]) /\ io[Len(io)].i = 1
    /\ result.kind = "raise"

Taxonomy ==
    {"AuthenticationError", "RateLimitError", "ValidationError",
     "NotFoundError", "ClassifAIError"}

\* C8: the outcome is decided by the status: 200 is a success, 401 an
\* AuthenticationError, 429 a RateLimitError, 400 a ValidationError, 404 a
\* NotFoundError, any other status the base ClassifAIError, and every error
\* carries the status as its status_code.
C8_StatusMapping ==
    (response # NoVal) =>
        LET st == response.status_code
        IN  IF st = 200 THEN result.kind = "return"
            ELSE /\ result.kind = "raise"
                 /\ result.exc = (CASE st = 401 -> "AuthenticationError"
                                    [] st = 429 -> "RateLimitError"
                                    [] st = 400 -> "ValidationError"
                                    [] st = 404 -> "NotFoundError"
                                    [] OTHER -> "ClassifAIError")
                 /\ result.status_code = st

\* C9: whatever the body of a non-200 response, the outcome is an error of
\* the taxonomy carrying the response's status code.
C9_AlwaysApiError ==
    (response # NoVal /\ response.status_code # 200) =>
        /\ result.kind = "raise"
        /\ result.exc \in Taxonomy
        /\ result.status_code = response.status_code

\* C10: a 200 response is always a success whose value is the parsed body
\* as it is, also when the body has an error or a detail field.
C10_SuccessUnchanged ==
    (response # NoVal /\ response.status_code = 200) =>
        /\ result.kind = "return"
        /\ response.body.json # NoVal => result.value = response.body.json

\* a 200 response whose body has error and detail fields, returned
C10_Witness ==
    /\ pc = "done"
    /\ response # NoVal /\ response.status_code = 200
    /\ response.body.json = JDict([error |-> "X", detail |-> "Y"])
    /\ result = [kind |-> "return", value |-> JDict([error |-> "X", detail |-> "Y"])]

\* ------------------------------------------------------------- C11, C12
\* a non-200 response whose body is a JSON object, mapped
ErrorObject ==
    /\ pc = "done"
    /\ response # NoVal
    /\ response.status_code # 200
    /\ response.body.json # NoVal
    /\ response.body.json.t = "dict"

\* the fields of the body of the response
Fields == response.body.json.d

ErrorText == IF "error" \in DOMAIN Fields THEN Fields.error ELSE "Unknown error"

\* C11 as stated: the message of the error for a non-200 response is the
\* body's error field, or "Unknown error" without one, followed by ": " and
\* the detail whenever the body has a detail field.
C11_DetailWhenPresent ==
    ErrorObject =>
        /\ result.kind = "raise"
        /\ result.message =
              IF "detail" \in DOMAIN Fields
              THEN ErrorText \o ": " \o Fields.detail
              ELSE ErrorText

\* C11: the message of the error for a non-200 response is the body's error
\* field, or "Unknown error" without one, followed by ": " and the detail
\* when the body has a detail field that is not empty; with no detail field
\* or an empty one the message is the error text alone.
C11_DetailWhenNonEmpty ==
    ErrorObject =>
        /\ result.kind = "raise"
        /\ result.message =
              IF "detail" \in DOMAIN Fields /\ Fields.detail # ""
              THEN ErrorText \o ": " \o Fields.detail
              ELSE ErrorText

\* status 400 with body {error: X, detail: ""}: the message is "X"
C11_Witness ==
    /\ ErrorObject
    /\ response.status_code = 400
    /\ Fields = [error |-> "X", detail |-> ""]
    /\ result.kind = "raise"
    /\ result.message = "X"

\* a response whose body json() cannot parse, mapped
Unparseable ==
    /\ pc = "done"
    /\ response # NoVal
    /\ response.body.json = NoVal

\* {"error": raw text}
RawError == [t |-> "dict", d |-> [error |-> response.body.text]]

\* C12: a body that cannot be parsed counts as {error: raw text}: with a
\* non-200 status the error's message is the raw text and its response is
\* {error: raw text}; with status 200 the value returned is {error: raw text}.
C12_UnparseableBody ==
    Unparseable =>
        IF response.status_code = 200
        THEN result = [kind |-> "return", value |-> RawError]
        ELSE /\ result.kind = "raise"
             /\ result.message = response.body.text
             /\ result.response = RawError

\* status 500 with the body "oops": message "oops", response {error: "oops"}
C12_Witness ==
    /\ Unparseable
    /\ response.status_code = 500
    /\ response.body.text = "oops"
    /\ result.kind = "raise"
    /\ result.exc = "ClassifAIError"
    /\ result.message = "oops"
    /\ result.response = [t |-> "dict", d |-> [error |-> "oops"]]

\* ----------------------------------------------------------------- C13
\* a submit_feedback call that has sent its request
FeedbackSent == op = "submit_feedback" /\ pc \in {"await", "done"}

\* "{base_url}/ground_truth/{detection_id}"
FeedbackUrl ==
    base_url \o <<"/","g","r","o","u","n","d","_","t","r","u","t","h","/">>
             \o args.detection_id

\* C13: submit_feedback sends one POST to {base_url}/ground_truth/{id}; its
\* body has exactly one field, ground_truth with the label for a single
\* string and ground_truth_labels with the same list for a list, also for a
\* list of one label.
C13_FeedbackShape ==
    FeedbackSent =>
        /\ Cardinality({ k \in 1..Len(io) : io[k].ev = "api" }) = 1
        /\ Len(io) = 1
        /\ request.method = "POST"
        /\ request.url = FeedbackUrl
        /\ io[1].url = FeedbackUrl
        /\ Cardinality(DOMAIN request.json) = 1
        /\ IF args.ground_truth.kind = "str"
           THEN /\ DOMAIN request.json = {"ground_truth"}
                /\ request.json["ground_truth"] = args.ground_truth.s
           ELSE /\ DOMAIN request.json = {"ground_truth_labels"}
                /\ request.json["ground_truth_labels"] = args.ground_truth.l

\* submit_feedback("det_1", ["a"]) answered: the list of one label was sent
C13_Witness ==
    /\ FeedbackSent
    /\ pc = "done"
    /\ response # NoVal
    /\ args.detection_id = <<"d","e","t","_","1">>
    /\ args.ground_truth = [kind |-> "list", l |-> <<"a">>]
    /\ "ground_truth_labels" \in DOMAIN request.json
    /\ request.json["ground_truth_labels"] = <<"a">>

\* ----------------------------------------------------------------- C14
\* a classify call that has sent its request
ClassifySent == op = "classify" /\ request # NoVal

\* the caller gave a value for the argument, and not an empty one
Supplied(x) ==
    \/ x.kind = "str"  /\ x.s # ""
    \/ x.kind = "list" /\ x.l # <<>>

\* the body has the field exactly when the argument was supplied, with the
\* caller's value
FieldAsSupplied(name, x) ==
    /\ name \in DOMAIN request.json <=> Supplied(x)
    /\ Supplied(x) =>
          request.json[name] = (IF x.kind = "str" THEN x.s ELSE x.l)

\* C14: the body of the classify request has content, the normalized items,
\* and has labels, description and project_id each exactly when the caller
\* supplied it and not empty, with the caller's value; it has no other field.
C14_OptionalFields ==
    ClassifySent =>
        /\ "content" \in DOMAIN request.json
        /\ request.json["content"] = content_items
        /\ FieldAsSupplied("labels", args.labels)
        /\ FieldAsSupplied("description", args.description)
        /\ FieldAsSupplied("project_id", args.project_id)
        /\ DOMAIN request.json \subseteq
              {"content", "labels", "description", "project_id"}

\* classify with an empty list of labels, a description and a project id:
\* the body has content, description and project_id and no labels
C14_Witness ==
    /\ ClassifySent
    /\ args.labels = [kind |-> "list", l |-> <<>>]
    /\ args.description = [kind |-> "str", s |-> "d"]
    /\ DOMAIN request.json = {"content", "description", "project_id"}
    /\ request.json["description"] = "d"
    /\ request.json["project_id"] = "p"

\* ----------------------------------------------------------------- C15
\* the normalization of the content of a classify call went through
NormalizationDone ==
    /\ op = "classify"
    /\ content.k # "other"
    /\ Len(content_items) = (IF content.k = "str" THEN 1 ELSE Len(content.l))

\* C15: one invocation makes at most one call to the API: a response, of
\* whatever status, ends the call with its outcome and no further request;
\* submit_feedback, get_project_stats and health_check make one call, and
\* classify makes exactly one POST, the last thing it does, once the content
\* is normalized.
C15_AtMostOneCall ==
    /\ Cardinality(ApiEvents) <= 1
    /\ response # NoVal =>
          /\ ApiEvents = {Len(io)}
          /\ pc = "done"
          /\ result # NoVal
    /\ op \in {"submit_feedback", "get_project_stats", "health_check"} =>
          ApiEvents = {1} /\ Len(io) = 1
    /\ (pc = "done" /\ NormalizationDone) =>
          /\ ApiEvents = {Len(io)}
          /\ io[Len(io)].method = "POST"
    /\ (op = "classify" /\ ~NormalizationDone) => ApiEvents = {}

\* a classify call answered with status 429: one request was made
C15_Witness ==
    /\ pc = "done"
    /\ op = "classify"
    /\ response # NoVal /\ response.status_code = 429
    /\ result.kind = "raise"
    /\ Cardinality(ApiEvents) = 1

\* ----------------------------------------------------------------- C16
\* s is b without the slashes at its end
StrippedOf(s, b) ==
    /\ Len(s) = 0 \/ s[Len(s)] # "/"
    /\ Len(s) <= Len(b)
    /\ s = SubSeq(b, 1, Len(s))
    /\ \A k \in (Len(s) + 1)..Len(b) : b[k] = "/"

\* a key was given to the constructor (None and "" are no key)
KeyGiven == api_key # [kind |-> "none"] /\ api_key.s # ""

\* C16: at every moment the base_url is a base_url argument without its
\* trailing slashes, the headers have Content-Type: application/json, and
\* they have X-API-Key, with the key as value, exactly when a key was given.
C16_ConfigInvariant ==
    /\ \E b \in { <<"h","t","t","p","s",":","/","/","a","p","i",".","c","l","a",
                     "s","s","i","f","a","i",".","d","e","v">>,
                   <<"h","t","t","p",":","/","/","h","/">>,
                   <<"h","t","t","p",":","/","/","h","/","/">> } :
          StrippedOf(base_url, b)
    /\ "Content-Type" \in DOMAIN headers
    /\ headers["Content-Type"] = "application/json"
    /\ "X-API-Key" \in DOMAIN headers <=> KeyGiven
    /\ KeyGiven => headers["X-API-Key"] = api_key.s
    /\ DOMAIN headers \subseteq {"Content-Type", "X-API-Key"}

\* a client made with a key and a base_url ending in slashes, after a call:
\* the base_url is "http://h" and the key is in the headers
C16_Witness ==
    /\ pc = "done"
    /\ response # NoVal
    /\ base_url = <<"h","t","t","p",":","/","/","h">>
    /\ api_key = [kind |-> "str", s |-> "k"]
    /\ headers = ("X-API-Key" :> "k") @@ ("Content-Type" :> "application/json")

\* ----------------------------------------------------------------- C17
\* C17: no step of any operation changes the client's base_url, api_key or
\* headers, whether the call succeeds, fails in normalization or fails with
\* a mapped error, and from the call to its end the caller's content is the
\* value that was passed.
C17_NoLocalMutation ==
    [][ /\ base_url' = base_url
        /\ api_key' = api_key
        /\ headers' = headers
        /\ (pc # "idle" /\ pc' # "idle") => content' = content ]_vars

\* a classify call on a list that ended with a mapped error
C17_Witness ==
    /\ pc = "done"
    /\ op = "classify"
    /\ content.k = "list"
    /\ content.l # <<>>
    /\ response # NoVal
    /\ result.kind = "raise"
    /\ result.exc = "NotFoundError"
    /\ "X-API-Key" \in DOMAIN headers

\* ----------------------------------------------------------------- C18
\* the caller observes an error of the client's taxonomy
ApiErrorObserved ==
    /\ pc = "done"
    /\ result.kind = "raise"
    /\ result.exc \in Taxonomy

\* C18 as stated: every error of the taxonomy a caller observes was made
\* from a non-200 response that was received and carries the status code
\* of that response.
C18_OnlyFromResponse ==
    ApiErrorObserved =>
        /\ response # NoVal
        /\ response.status_code # 200
        /\ result.status_code = response.status_code

\* C18: an error of the taxonomy is made in two places only: by the mapper
\* from a non-200 response that was received, and then it carries the status
\* code and the parsed body of that response; and by classify for content
\* that is neither a string nor a list, a ValidationError with no status
\* code and no response, made before any I/O.
C18_MapperOrLocal ==
    ApiErrorObserved =>
        IF response # NoVal
        THEN /\ response.status_code # 200
             /\ result.status_code = response.status_code
             /\ result.response.t = "dict"
             /\ ApiEvents = {Len(io)}
        ELSE /\ op = "classify"
             /\ content.k = "other"
             /\ result.exc = "ValidationError"
             /\ result.status_code = [kind |-> "none"]
             /\ result.response = [kind |-> "none"]
             /\ io = <<>>

\* classify(None): a ValidationError with no response behind it
C18_Witness ==
    /\ ApiErrorObserved
    /\ op = "classify"
    /\ content.k = "other"
    /\ response = NoVal
    /\ result.exc = "ValidationError"

\* an error of the taxonomy made by the mapper from a 401 response
C18_MapperWitness ==
    /\ ApiErrorObserved
    /\ response # NoVal
    /\ response.status_code = 401
    /\ result.exc = "AuthenticationError"
    /\ result.status_code = 401

\* ----------------------------------------------------------------- C19
\* C19: classify on content that is neither a string nor a list has ended
\* with the ValidationError of the client, made locally: no URL was fetched,
\* no file was probed or read and no request was sent, at any moment of the
\* call.
C19_BadContentIsLocal ==
    (op = "classify" /\ content.k = "other") =>
        /\ pc = "done"
        /\ result.kind = "raise"
        /\ result.exc = "ValidationError"
        /\ result.message =
              "Content must be a string, list of strings/paths/URLs, or list of dicts"
        /\ FetchEvents = {} /\ FileIoEvents = {} /\ ApiEvents = {}
        /\ request = NoVal
        /\ items = <<>> /\ content_items = <<>>

\* classify(None) has failed and nothing was done
C19_Witness ==
    /\ pc = "done"
    /\ op = "classify"
    /\ content.k = "other"
    /\ result.kind = "raise"
    /\ io = <<>>

\* ----------------------------------------------------------------- C20
\* the errors of the transport and of the file system
LayerErrors == {"ConnectionError", "Timeout", "HTTPError", "PermissionError", "OSError"}

\* a fetch or a read that failed
FailedEvent(e) == e.ev \in {"get", "read"} /\ e.outcome # "ok"

\* a classify call on a string or a list that ended before its request
EndedInNormalization ==
    /\ pc = "done"
    /\ op = "classify"
    /\ content.k # "other"
    /\ request = NoVal

\* C20: when a fetch or a file read of the normalization fails, the call
\* ends with the error of that layer as it is and the fetch or read was
\* tried once; and a call that ends in normalization, whatever failed, ends
\* with an error of the transport or the file system and never with an
\* error of the taxonomy.
C20_LayerErrorPropagates ==
    /\ \A k \in 1..Len(io) :
          FailedEvent(io[k]) =>
              /\ EndedInNormalization
              /\ result.exc = io[k].outcome
              /\ Cardinality({ m \in 1..Len(io) :
                                  io[m].ev = io[k].ev /\ io[m].i = io[k].i }) = 1
    /\ EndedInNormalization =>
          /\ result.kind = "raise"
          /\ result.exc \in LayerErrors
          /\ result.exc \notin Taxonomy
          /\ DOMAIN result = {"kind", "exc"}

\* the fetch of a URL ended with an HTTP error and the call with HTTPError
C20_Witness ==
    /\ pc = "done"
    /\ op = "classify"
    /\ Len(io) = 1
    /\ io[1].ev = "get" /\ io[1].outcome = "HTTPError"
    /\ result = [kind |-> "raise", exc |-> "HTTPError"]

\* ----------------------------------------------------------------- C21
\* c2 is the list of one element made of the string c1
ListOfString(c1, c2) ==
    /\ c1.k = "str"
    /\ c2.k = "list"
    /\ Len(c2.l) = 1
    /\ c2.l[1].k = "str"
    /\ c2.l[1].s = c1.s

\* the normalization of the classify call in progress has ended
NormalizationEnded == op = "classify" /\ pc \in {"normalized", "await", "done"}

\* the fetches, probes and reads of the call in progress
CallIo == SelectSeq(io, LAMBDA e : e.ev # "api")

\* the exception of the call in progress, if its normalization raised
CallFailure == IF pc = "done" /\ request = NoVal THEN result ELSE [kind |-> "none"]

\* two events are the same operation on the same target
SameOperation(e, f) ==
    /\ e.ev = f.ev
    /\ e.i = f.i
    /\ IF e.ev = "get" THEN e.url = f.url /\ e.timeout = f.timeout
                        ELSE e.path = f.path

\* the length of the longest common prefix of two sequences
CommonPrefix(a, b) ==
    LET same == { n \in 0..Len(a) :
                    n <= Len(b) /\ \A j \in 1..n : a[j] = b[j] }
    IN  CHOOSE n \in same : \A m \in same : m <= n

\* C21: a call on the string s and a call on the list [s] do the same I/O
\* and end the same way: as long as the fetches, probes and reads are
\* answered alike the two calls do the same operations, and when all were
\* answered alike they give the same items or the same failure; and for a
\* bare string a fetched URL or a file that was read gives an Image item.
C21_StringAsOneElementList ==
    /\ (prev # NoVal /\ NormalizationEnded
          /\ (ListOfString(prev.content, content) \/ ListOfString(content, prev.content))) =>
          LET a == prev.io
              b == CallIo
              n == CommonPrefix(a, b)
          IN  IF n = Len(a) /\ n = Len(b)
              THEN /\ content_items = prev.content_items
                   /\ CallFailure = prev.failure
              ELSE /\ n < Len(a) /\ n < Len(b)
                   /\ SameOperation(a[n + 1], b[n + 1])
    /\ (NormalizationEnded /\ content.k = "str" /\ pc # "done") =>
          /\ Len(content_items) = 1
          /\ HttpPrefixed(content.s) =>
                io[1].ev = "get" /\ IsImageOf(content_items[1], io[1].data)
          /\ (io[1].ev = "stat" /\ io[1].state = "file") =>
                io[2].ev = "read" /\ IsImageOf(content_items[1], io[2].data)

\* a call on a URL string gave an Image item, and the call on the list of
\* that string, its fetch answered with the same bytes, gave the same item
C21_Witness ==
    /\ prev # NoVal
    /\ pc = "normalized"
    /\ prev.content.k = "str"
    /\ HttpPrefixed(prev.content.s)
    /\ ListOfString(prev.content, content)
    /\ Len(io) = 1 /\ io[1].data # <<>>
    /\ prev.io = io
    /\ content_items = prev.content_items
    /\ IsImageOf(content_items[1], io[1].data)

\* ----------------------------------------------------------------- C22
\* the events of one kind done for element i
ElemIo(i, kind) == { k \in 1..Len(io) : io[k].ev = kind /\ io[k].i = i }

\* the element is a string starting with http:// or https://
UrlElement(e) == e.k = "str" /\ HttpPrefixed(e.s)

\* the probe of element i found a regular file
FileFound(i) == \E k \in ElemIo(i, "stat") : io[k].state = "file"

\* the number of elements of the content of the call
ElementCount == IF content.k = "str" THEN 1 ELSE Len(content.l)

\* C22: in one classify call the fetches, probes and reads are done element
\* by element in list order, none for an element the loop has not reached
\* and none for an earlier element once a later one has started; a call
\* whose normalization returned has done exactly one fetch for each URL
\* element and exactly one read for each element found to be a file; and
\* the POST is the last thing done, after every element has its item.
C22_SequentialIo ==
    (op = "classify" /\ content.k # "other") =>
        /\ \A k \in 1..Len(io) :
              IF io[k].ev = "api"
              THEN /\ k = Len(io)
                   /\ io[k].method = "POST"
                   /\ Len(content_items) = ElementCount
              ELSE /\ io[k].i \in 1..idx
                   /\ io[k].i <= Len(content_items) + 1
        /\ \A k \in 1..Len(io) : \A m \in (k + 1)..Len(io) :
              (io[k].ev # "api" /\ io[m].ev # "api") =>
                  /\ io[k].i <= io[m].i
                  /\ io[k].i = io[m].i =>
                        m = k + 1 /\ io[k].ev = "stat" /\ io[m].ev = "read"
        /\ Normalized =>
              \A i \in 1..Len(items) :
                  IF UrlElement(items[i])
                  THEN /\ Cardinality(ElemIo(i, "get")) = 1
                       /\ ElemIo(i, "stat") = {} /\ ElemIo(i, "read") = {}
                  ELSE /\ ElemIo(i, "get") = {}
                       /\ Cardinality(ElemIo(i, "read")) = (IF FileFound(i) THEN 1 ELSE 0)
                       /\ Cardinality(ElemIo(i, "stat")) =
                              (IF items[i].k = "dict" THEN 0 ELSE 1)

\* a URL and then a file, classified with success: one fetch, one probe
\* and one read, then the POST
C22_Witness ==
    /\ pc = "done"
    /\ op = "classify"
    /\ result.kind = "return"
    /\ Len(io) = 4
    /\ io[1].ev = "get"  /\ io[1].i = 1
    /\ io[2].ev = "stat" /\ io[2].i = 2
    /\ io[3].ev = "read" /\ io[3].i = 2
    /\ io[4].ev = "api"

\* ----------------------------------------------------------------- C23
\* every element of the content list is a record, of whatever shape
OnlyRecords == content.k = "list" /\ \A i \in 1..Len(content.l) : content.l[i].k = "dict"

\* the record has both a type and a content field
WellFormed(d) ==
    /\ \E j \in 1..Len(d) : d[j][1] = <<"t","y","p","e">>
    /\ \E j \in 1..Len(d) : d[j][1] = <<"c","o","n","t","e","n","t">>

\* C23: a list whose elements are all records is passed through whatever
\* the records hold: the normalized content is the list itself, no fetch,
\* probe or read is done, nothing is raised locally and the request is sent
\* with the list as its content; the empty list is passed through too and
\* sent as an empty content.
C23_AnyRecordsPassThrough ==
    (op = "classify" /\ OnlyRecords) =>
        /\ pc \in {"normalized", "await", "done"}
        /\ content_items = [i \in 1..Len(content.l) |-> content.l[i].d]
        /\ \A k \in 1..Len(io) : io[k].ev = "api"
        /\ pc \in {"await", "done"} =>
              /\ request # NoVal
              /\ request.json["content"] = [i \in 1..Len(content.l) |-> content.l[i].d]
              /\ Len(io) = 1
        /\ (pc = "done" /\ response = NoVal) =>
              result.kind = "raise" /\ result.exc \in {"ConnectionError", "Timeout"}

\* a record without a content field and a record of an unknown type, sent
\* as they are
C23_Witness ==
    /\ pc = "await"
    /\ op = "classify"
    /\ OnlyRecords
    /\ Len(content.l) = 2
    /\ ~WellFormed(content.l[1].d)
    /\ content.l[1].d = << <<kType, vText>> >>
    /\ content.l[2].d = << <<kType, <<"v","i","d","e","o">>>>, <<kContent, sJpg>> >>
    /\ request.json["content"] = <<content.l[1].d, content.l[2].d>>

\* the empty list, sent as an empty content and answered
C23_EmptyListSent ==
    /\ pc = "done"
    /\ op = "classify"
    /\ content = [k |-> "list", l |-> <<>>]
    /\ request # NoVal
    /\ request.json["content"] = <<>>
    /\ result.kind = "return"

====
